---- MODULE Spec2Model ----
(***************************************************************************)
(* A model of container/conductor/utils.py: the role fingerprint           *)
(* (get_role_fingerprint), the scoped temporary directory (MakeTempDir),   *)
(* the image-configuration translator (metadata_to_image_config) and the   *)
(* role scaffold generator (create_role_from_templates).                   *)
(*                                                                         *)
(* Byte strings are sequences over an alphabet of abstract bytes (TLA+     *)
(* strings used as single symbols); feeding the digest appends to the      *)
(* sequence hash_obj, and SHA-256 is taken to be injective on that         *)
(* sequence.                                                               *)
(***************************************************************************)
EXTENDS Integers, Sequences, FiniteSets, TLC

\* ------------------------------------------------------------------------
\* Bounds of the model
\* ------------------------------------------------------------------------

\* hash_file reads blocks of 64 * 1024 bytes; the block is scaled down so
\* that files shorter than, equal to and longer than one block all occur.
blocksize == 3

\* Depth at which the interpreter refuses another nested hash_role call
\* (RuntimeError: maximum recursion depth exceeded), scaled down.
RecursionLimit == 4

\* ------------------------------------------------------------------------
\* The filesystem seen by get_role_fingerprint
\* ------------------------------------------------------------------------

Roles == {"a", "b", "c"}

\* Directories a role can resolve to.
Paths == {<<"/p">>, <<"/q">>, <<"/r">>, <<"/s">>}

\* The role whose fingerprint is asked for.
role_name == "a"

\* Python's None.
None == "None"

\* The field separator hash_obj.update('::').
SEP == <<":", ":">>

\* os.path.join(root, name)
join(root, name) == root \o <<"/", name>>

File(n, d) == [name |-> n, data |-> d]

Dir(n, fs) == [name |-> n, files |-> fs]

\* ------------------------------------------------------------------------
\* get_role_fingerprint: the pure parts
\* ------------------------------------------------------------------------

\* hash_file: every block read is fed to the digest and followed by '::';
\* the loop is left at the first empty read.
RECURSIVE hash_file(_)
hash_file(data) ==
    IF data = <<>> THEN <<>>
    ELSE LET n == IF Len(data) < blocksize THEN Len(data) ELSE blocksize
         IN  SubSeq(data, 1, n) \o SEP \o hash_file(SubSeq(data, n + 1, Len(data)))

\* The inner loop of hash_dir over the files of one directory, in the order
\* os.walk lists them.
RECURSIVE hash_files(_, _)
hash_files(root, files) ==
    IF files = <<>> THEN <<>>
    ELSE join(root, Head(files).name) \o SEP \o hash_file(Head(files).data)
         \o hash_files(root, Tail(files))

\* The sub-directories of the walk, in the order os.walk lists them.
RECURSIVE hash_subdirs(_, _)
hash_subdirs(root, dirs) ==
    IF dirs = <<>> THEN <<>>
    ELSE hash_files(join(root, Head(dirs).name), Head(dirs).files)
         \o hash_subdirs(root, Tail(dirs))

\* hash_dir: os.walk(dir_path, topdown=True) yields the root with its files,
\* then each sub-directory.
hash_dir(dir_path, t) ==
    hash_files(dir_path, t.files) \o hash_subdirs(dir_path, t.dirs)

\* open(os.path.join(role_path, 'meta', 'main.yml')): the bytes of the file,
\* or its absence.
meta_main_file(t) ==
    LET ds == SelectSeq(t.dirs, LAMBDA d : d.name = "meta")
        fs == IF ds = <<>> THEN <<>>
              ELSE SelectSeq(ds[1].files, LAMBDA f : f.name = "main.yml")
    IN  IF fs = <<>> THEN [exists |-> FALSE, data |-> <<>>]
        ELSE [exists |-> TRUE, data |-> fs[1].data]

\* One entry of the dependencies list: "-" is an entry without a 'role'
\* key, any other byte b is the entry {role: b}.
\* dependency.get('role', None)
dependency_role(entry) == IF entry = "-" THEN None ELSE entry

\* A variant that yields the dependencies last to first.
RECURSIVE dependency_roles_reversed(_)
dependency_roles_reversed(entries) ==
    IF entries = <<>> THEN <<>>
    ELSE dependency_roles_reversed(Tail(entries)) \o <<dependency_role(Head(entries))>>

RECURSIVE dependency_roles(_)
dependency_roles(entries) ==
    IF entries = <<>> THEN <<>>
    ELSE <<dependency_role(Head(entries))>> \o dependency_roles(Tail(entries))

\* yaml.safe_load: an empty file is the empty document (None); a file whose
\* first byte is "D" is a mapping with a 'dependencies' list made of the
\* bytes that follow; any other file is a mapping without that key.
safe_load(data) ==
    IF data = <<>> THEN [kind |-> "None", has |-> FALSE, deps |-> <<>>]
    ELSE IF Head(data) = "D"
         THEN [kind |-> "dict", has |-> TRUE, deps |-> Tail(data)]
         ELSE [kind |-> "dict", has |-> FALSE, deps |-> <<>>]

\* get_dependencies_for_role: the outcome of the generator, "ok" with the
\* roles it yields, or the error raised when it is first advanced.
get_dependencies_for_role(t) ==
    LET f == meta_main_file(t)
        doc == safe_load(f.data)
    IN  IF ~f.exists THEN [status |-> "IOError", roles |-> <<>>]
        ELSE IF doc.kind = "None" THEN [status |-> "AttributeError", roles |-> <<>>]
        ELSE [status |-> "ok",
              roles |-> IF doc.has THEN dependency_roles(doc.deps) ELSE <<>>]

\* hash_obj.hexdigest(): SHA-256 is modelled as an injective function of the
\* bytes fed to it.
hexdigest(stream) == <<"sha256">> \o stream

\* ------------------------------------------------------------------------
\* State
\* ------------------------------------------------------------------------

VARIABLES
    op,         \* the function of the module a behaviour exercises
    path,       \* resolve_role_to_path: role name -> directory
    tree,       \* the directory tree under each role's directory
    run,        \* number of get_role_fingerprint calls started
    pc,         \* position of the current get_role_fingerprint call
    stack,      \* the nested hash_role calls, innermost last
    hash_obj,   \* the bytes fed to the digest so far
    result,     \* outcome of each call: a digest or the error raised
    edit,       \* what was changed on disk between the two calls
    visits,     \* number of hash_role calls per role in the current call
    temp_dir,   \* MakeTempDir.temp_dir
    tmp_pc,     \* position of the with-block using MakeTempDir
    tmp_disk,   \* the temporary directory on disk
    tmp_exc,    \* the exception in flight, then the one reaching the caller
    tmp_log,    \* what MakeTempDir logged
    metadata,   \* argument of metadata_to_image_config
    cfg_pc,     \* position of the metadata_to_image_config call
    config,     \* outcome of metadata_to_image_config
    templates,  \* the template files os.walk finds under templates/role
    todo,       \* the templates create_role_from_templates has yet to render
    sc_pc,      \* position of the create_role_from_templates call
    preexisting,\* the files under role_path when create_role_from_templates is called
    role_fs     \* the files under role_path

fpvars == <<path, tree, run, pc, stack, hash_obj, result, edit, visits>>

tmpvars == <<temp_dir, tmp_pc, tmp_disk, tmp_exc, tmp_log>>

cfgvars == <<metadata, cfg_pc, config>>

scvars == <<templates, todo, sc_pc, preexisting, role_fs>>

vars == <<op, fpvars, tmpvars, cfgvars, scvars>>

\* ------------------------------------------------------------------------
\* Role trees the model starts from and can change to
\* ------------------------------------------------------------------------

\* Top-level file lists a role can have (in os.walk's listing order).
FileLists ==
    { <<>>,
      <<File("f", <<>>)>>,
      <<File("f", <<"x">>)>>,
      <<File("f", <<"/p", "/", "g">>)>>,
      <<File("f", <<"x", "y", "z", "w">>)>>,
      <<File("f", <<>>), File("g", <<>>)>>,
      <<File("f", <<"x">>), File("g", <<>>)>>,
      <<File("f", <<"x">>), File("g", <<"x">>)>>,
      <<File("g", <<"x">>), File("f", <<"x", "y", "z", "w">>)>> }

BaseFileLists ==
    { <<File("f", <<"x">>)>>,
      <<File("f", <<"/p", "/", "g">>)>>,
      <<File("f", <<"x">>), File("g", <<>>)>>,
      <<File("g", <<"x">>), File("f", <<"x", "y", "z", "w">>)>> }

NoMeta == [exists |-> FALSE, data |-> <<>>]

Meta(d) == [exists |-> TRUE, data |-> d]

\* meta/main.yml of the fingerprinted role: absent, the empty document, a
\* mapping without 'dependencies', and dependency lists.
MetaOfRoot ==
    { NoMeta, Meta(<<>>), Meta(<<"K">>), Meta(<<"D">>),
      Meta(<<"D", "b">>), Meta(<<"D", "b", "c">>), Meta(<<"D", "-", "b">>),
      Meta(<<"D", "a">>), Meta(<<"D", "z">>) }

MetaOfB == { Meta(<<"D">>), Meta(<<"D", "c">>), Meta(<<"D", "a">>) }

MetaOfC == { Meta(<<"D">>), Meta(<<"D", "b">>) }

MkTree(files, meta, tasks) ==
    [files |-> files,
     dirs  |-> (IF meta.exists
                THEN <<Dir("meta", <<File("main.yml", meta.data)>>)>> ELSE <<>>)
               \o (IF tasks
                   THEN <<Dir("tasks", <<File("main.yml", <<"x">>)>>)>> ELSE <<>>)]

NoEdit == [kind |-> "none", role |-> None]

Pending == [status |-> "pending", digest |-> <<>>]

Raised(e) == [status |-> e, digest |-> <<>>]

Returned(d) == [status |-> "digest", digest |-> d]

path0 == [r \in Roles |-> IF r = "a" THEN <<"/p">>
                          ELSE IF r = "b" THEN <<"/q">> ELSE <<"/r">>]

IdleFingerprint ==
    /\ path = path0
    /\ tree = [r \in Roles |-> MkTree(<<>>, NoMeta, FALSE)]
    /\ run = 0
    /\ pc = "off"
    /\ stack = <<>>
    /\ hash_obj = <<>>
    /\ result = [k \in 1..2 |-> Pending]
    /\ edit = NoEdit
    /\ visits = [r \in Roles |-> 0]

InitFingerprint ==
    /\ path = path0
    /\ \E fa \in BaseFileLists, ma \in MetaOfRoot, ta \in BOOLEAN,
          mb \in MetaOfB, mc \in MetaOfC :
          tree = [r \in Roles |->
                    IF r = "a" THEN MkTree(fa, ma, ta)
                    ELSE IF r = "b" THEN MkTree(<<File("f", <<"x">>)>>, mb, FALSE)
                    ELSE MkTree(<<>>, mc, FALSE)]
    /\ run = 0
    /\ pc = "idle"
    /\ stack = <<>>
    /\ hash_obj = <<>>
    /\ result = [k \in 1..2 |-> Pending]
    /\ edit = NoEdit
    /\ visits = [r \in Roles |-> 0]

\* ------------------------------------------------------------------------
\* get_role_fingerprint: the call, step by step
\* ------------------------------------------------------------------------

Frame(r) == [role |-> r, entered |-> FALSE, deps |-> <<>>]

Top == stack[Len(stack)]

\* hash_obj = hashlib.sha256(); hash_role(hash_obj, resolve_role_to_path(role_name))
get_role_fingerprint ==
    /\ op = "fingerprint"
    /\ pc = "idle"
    /\ run < 2
    /\ run' = run + 1
    /\ pc' = "hashing"
    /\ hash_obj' = <<>>
    /\ stack' = <<Frame(role_name)>>
    /\ visits' = [r \in Roles |-> 0]
    /\ UNCHANGED <<op, tmpvars, cfgvars, scvars, path, tree, result, edit>>

\* hash_role up to the first step of its for loop: hash_dir on the role's
\* directory, then the generator get_dependencies_for_role is advanced and
\* opens and parses meta/main.yml.
hash_role ==
    /\ pc = "hashing"
    /\ ~Top.entered
    /\ hash_obj' = hash_obj \o hash_dir(path[Top.role], tree[Top.role])
    /\ visits' = [visits EXCEPT ![Top.role] = @ + 1]
    /\ LET g == get_dependencies_for_role(tree[Top.role])
       IN  IF g.status = "ok"
           THEN /\ stack' = [stack EXCEPT ![Len(stack)] =
                                [role |-> Top.role, entered |-> TRUE, deps |-> g.roles]]
                /\ UNCHANGED <<pc, result>>
           ELSE /\ pc' = "error"
                /\ stack' = <<>>
                /\ result' = [result EXCEPT ![run] = Raised(g.status)]
    /\ UNCHANGED <<op, tmpvars, cfgvars, scvars, path, tree, run, edit>>

\* A variant of the loop iteration that skips a role already hashed in this
\* call.
hash_role_dependency_once ==
    /\ pc = "hashing"
    /\ Top.entered
    /\ Top.deps # <<>>
    /\ LET dependency == Head(Top.deps)
           rest == [stack EXCEPT ![Len(stack)].deps = Tail(Top.deps)]
       IN  IF dependency = None \/ (dependency \in Roles /\ visits[dependency] > 0)
           THEN /\ stack' = rest
                /\ UNCHANGED <<pc, result>>
           ELSE IF dependency \notin Roles
           THEN /\ pc' = "error"
                /\ stack' = <<>>
                /\ result' = [result EXCEPT ![run] = Raised("AnsibleError")]
           ELSE IF Len(stack) >= RecursionLimit
           THEN /\ pc' = "error"
                /\ stack' = <<>>
                /\ result' = [result EXCEPT ![run] = Raised("RuntimeError")]
           ELSE /\ stack' = Append(rest, Frame(dependency))
                /\ UNCHANGED <<pc, result>>
    /\ UNCHANGED <<op, tmpvars, cfgvars, scvars, path, tree, run, hash_obj, edit, visits>>

\* One iteration of the for loop of hash_role: an entry without a role is
\* skipped, any other is resolved and hash_role is called on it.
hash_role_dependency ==
    /\ pc = "hashing"
    /\ Top.entered
    /\ Top.deps # <<>>
    /\ LET dependency == Head(Top.deps)
           rest == [stack EXCEPT ![Len(stack)].deps = Tail(Top.deps)]
       IN  IF dependency = None
           THEN /\ stack' = rest
                /\ UNCHANGED <<pc, result>>
           ELSE IF dependency \notin Roles
           THEN /\ pc' = "error"
                /\ stack' = <<>>
                /\ result' = [result EXCEPT ![run] = Raised("AnsibleError")]
           ELSE IF Len(stack) >= RecursionLimit
           THEN /\ pc' = "error"
                /\ stack' = <<>>
                /\ result' = [result EXCEPT ![run] = Raised("RuntimeError")]
           ELSE /\ stack' = Append(rest, Frame(dependency))
                /\ UNCHANGED <<pc, result>>
    /\ UNCHANGED <<op, tmpvars, cfgvars, scvars, path, tree, run, hash_obj, edit, visits>>

\* The for loop of hash_role is exhausted: hash_role returns; when the
\* outermost call returns, get_role_fingerprint returns hash_obj.hexdigest().
hash_role_return ==
    /\ pc = "hashing"
    /\ Top.entered
    /\ Top.deps = <<>>
    /\ stack' = SubSeq(stack, 1, Len(stack) - 1)
    /\ IF Len(stack) = 1
       THEN /\ pc' = "done"
            /\ result' = [result EXCEPT ![run] = Returned(hexdigest(hash_obj))]
       ELSE UNCHANGED <<pc, result>>
    /\ UNCHANGED <<op, tmpvars, cfgvars, scvars, path, tree, run, hash_obj, edit, visits>>

\* ------------------------------------------------------------------------
\* Changes on disk between the first and the second call
\* ------------------------------------------------------------------------

Finished == pc \in {"done", "error"}

Reordered(s) == { [i \in 1..Len(s) |-> s[p[i]]] : p \in Permutations(1..Len(s)) } \ {s}

AsSet(files) == { <<files[i].name, files[i].data>> : i \in 1..Len(files) }

SetMeta(t, d) ==
    [t EXCEPT !.dirs = [i \in 1..Len(t.dirs) |->
        IF t.dirs[i].name = "meta"
        THEN Dir("meta", <<File("main.yml", d)>>) ELSE t.dirs[i]]]

BeginEdit(kind, r) ==
    /\ op = "fingerprint"
    /\ Finished
    /\ run = 1
    /\ edit = NoEdit
    /\ edit' = [kind |-> kind, role |-> r]
    /\ pc' = "idle"
    /\ UNCHANGED <<op, tmpvars, cfgvars, scvars, run, stack, hash_obj, result, visits>>

\* meta/main.yml of a role lists the same dependency entries in another order.
ReorderDependencies ==
    \E r \in Roles :
        /\ BeginEdit("reorder", r)
        /\ LET m == meta_main_file(tree[r])
           IN  /\ m.exists
               /\ m.data # <<>>
               /\ Head(m.data) = "D"
               /\ \E s \in Reordered(Tail(m.data)) :
                      tree' = [tree EXCEPT ![r] = SetMeta(@, <<"D">> \o s)]
        /\ UNCHANGED path

\* The same tree is found under another directory.
MoveRole ==
    \E r \in Roles :
        /\ BeginEdit("move", r)
        /\ \E p \in Paths \ { path[q] : q \in Roles } :
              path' = [path EXCEPT ![r] = p]
        /\ UNCHANGED tree

\* The filesystem lists the entries of a directory in another order.
Relist ==
    \E r \in Roles :
        /\ BeginEdit("relist", r)
        /\ \/ \E fs \in Reordered(tree[r].files) :
                 tree' = [tree EXCEPT ![r].files = fs]
           \/ \E ds \in Reordered(tree[r].dirs) :
                 tree' = [tree EXCEPT ![r].dirs = ds]
        /\ UNCHANGED path

\* Files of a role are added, removed or rewritten.
ChangeContent ==
    \E r \in Roles :
        /\ BeginEdit("content", r)
        /\ \E fs \in FileLists :
              /\ AsSet(fs) # AsSet(tree[r].files)
              /\ tree' = [tree EXCEPT ![r].files = fs]
        /\ UNCHANGED path

\* ------------------------------------------------------------------------
\* MakeTempDir used as "with make_temp_dir() as d: body"
\* ------------------------------------------------------------------------

\* Files the body of the with-block may leave in the directory.
MaxTempFiles == 2

NoDisk == [exists |-> FALSE, files |-> 0]

IdleTempDir ==
    /\ temp_dir = None
    /\ tmp_pc = "off"
    /\ tmp_disk = NoDisk
    /\ tmp_exc = None
    /\ tmp_log = <<>>

InitTempDir ==
    /\ temp_dir = None
    /\ tmp_pc = "with"
    /\ tmp_disk = NoDisk
    /\ tmp_exc = None
    /\ tmp_log = <<>>

\* __enter__: tempfile.mkdtemp() creates the directory, or raises and the
\* with-block is never entered.
__enter__ ==
    /\ tmp_pc = "with"
    /\ \/ /\ temp_dir' = "tmpdir"
          /\ tmp_disk' = [exists |-> TRUE, files |-> 0]
          /\ tmp_log' = Append(tmp_log, "debug")
          /\ tmp_pc' = "body"
          /\ UNCHANGED tmp_exc
       \/ /\ tmp_exc' = "mkdtemp"
          /\ tmp_pc' = "left"
          /\ UNCHANGED <<temp_dir, tmp_disk, tmp_log>>
    /\ UNCHANGED <<op, fpvars, cfgvars, scvars>>

\* The body of the with-block writes a file into the directory.
body_write ==
    /\ tmp_pc = "body"
    /\ tmp_disk.files < MaxTempFiles
    /\ tmp_disk' = [tmp_disk EXCEPT !.files = @ + 1]
    /\ UNCHANGED <<op, fpvars, cfgvars, scvars, temp_dir, tmp_pc, tmp_exc, tmp_log>>

\* The body of the with-block finishes normally or raises.
body_end ==
    /\ tmp_pc = "body"
    /\ \E raises \in BOOLEAN : tmp_exc' = IF raises THEN "body" ELSE None
    /\ tmp_pc' = "exit"
    /\ UNCHANGED <<op, fpvars, cfgvars, scvars, temp_dir, tmp_disk, tmp_log>>

\* A variant of __exit__ without the try/except around rmtree: the failure
\* of rmtree replaces whatever was in flight.
__exit__unguarded ==
    /\ tmp_pc = "exit"
    /\ \/ /\ tmp_disk' = NoDisk
          /\ tmp_log' = Append(tmp_log, "debug")
          /\ UNCHANGED tmp_exc
       \/ /\ \E left \in 0..tmp_disk.files :
                tmp_disk' = [exists |-> TRUE, files |-> left]
          /\ tmp_log' = Append(tmp_log, "debug")
          /\ tmp_exc' = "rmtree"
    /\ tmp_pc' = "left"
    /\ UNCHANGED <<op, fpvars, cfgvars, scvars, temp_dir>>

\* __exit__: shutil.rmtree(self.temp_dir) inside try/except Exception; the
\* method returns None, so an exception of the body goes on to the caller.
\* A failing rmtree leaves the directory with some or all of its files.
__exit__ ==
    /\ tmp_pc = "exit"
    /\ \/ /\ tmp_disk' = NoDisk
          /\ tmp_log' = Append(tmp_log, "debug")
       \/ /\ \E left \in 0..tmp_disk.files :
                tmp_disk' = [exists |-> TRUE, files |-> left]
          /\ tmp_log' = tmp_log \o <<"debug", "exception">>
    /\ tmp_pc' = "left"
    /\ UNCHANGED <<op, fpvars, cfgvars, scvars, temp_dir, tmp_exc>>

\* ------------------------------------------------------------------------
\* metadata_to_image_config
\* ------------------------------------------------------------------------

\* Python values: a string is a sequence of characters, a list a sequence
\* of strings, a dict a function from strings.
PStr(s) == [t |-> "str", v |-> s]

PList(l) == [t |-> "list", v |-> l]

PDict(d) == [t |-> "dict", v |-> d]

PNone == [t |-> "None", v |-> <<>>]

Ok(v) == [status |-> "ok", v |-> v]

Err(e) == [status |-> e, v |-> PNone]

Digits == <<"0", "1", "2", "3", "4", "5", "6", "7", "8", "9">>

IsDigit(c) == \E d \in 1..10 : Digits[d] = c

DigitValue(c) == (CHOOSE d \in 1..10 : Digits[d] = c) - 1

\* int(s) accepts a non-empty string of decimal digits.
IsInt(s) == s # <<>> /\ \A i \in 1..Len(s) : IsDigit(s[i])

RECURSIVE int(_)
int(s) ==
    IF s = <<>> THEN 0
    ELSE 10 * int(SubSeq(s, 1, Len(s) - 1)) + DigitValue(s[Len(s)])

\* str(n) for n >= 0
RECURSIVE str(_)
str(n) ==
    IF n < 10 THEN <<Digits[n + 1]>>
    ELSE str(n \div 10) \o <<Digits[(n % 10) + 1]>>

Positions(s, c) == { i \in 1..Len(s) : s[i] = c }

Maximum(S) == CHOOSE m \in S : \A n \in S : n <= m

Minimum(S) == CHOOSE m \in S : \A n \in S : m <= n

\* port_spec.rsplit(':')[-1]
rsplit_last(port_spec) ==
    IF Positions(port_spec, ":") = {} THEN port_spec
    ELSE SubSeq(port_spec, Maximum(Positions(port_spec, ":")) + 1, Len(port_spec))

\* The keys one port_spec adds to to_return, or the ValueError of int().
exposed_ports_of(port_spec) ==
    LET exposed_ports == rsplit_last(port_spec)
        dash == Positions(exposed_ports, "-")
    IN  IF dash # {}
        THEN LET low  == SubSeq(exposed_ports, 1, Minimum(dash) - 1)
                 high == SubSeq(exposed_ports, Minimum(dash) + 1, Len(exposed_ports))
             IN  IF IsInt(low) /\ IsInt(high)
                 THEN [status |-> "ok",
                       keys |-> { str(port) : port \in int(low)..int(high) }]
                 ELSE [status |-> "ValueError", keys |-> {}]
        ELSE [status |-> "ok", keys |-> {exposed_ports}]

\* ports_to_exposed_ports: the for loop over list_of_ports.
RECURSIVE ports_to_exposed_ports_loop(_, _)
ports_to_exposed_ports_loop(list_of_ports, to_return) ==
    IF list_of_ports = <<>> THEN Ok(PDict(to_return))
    ELSE LET e == exposed_ports_of(Head(list_of_ports))
         IN  IF e.status # "ok" THEN Err(e.status)
             ELSE ports_to_exposed_ports_loop(Tail(list_of_ports),
                      [k \in DOMAIN to_return \cup e.keys |-> PDict(<<>>)])

ports_to_exposed_ports(list_of_ports) ==
    ports_to_exposed_ports_loop(list_of_ports.v, <<>>)

\* format_environment: a dict becomes the list of 'key=value' in the order
\* iteritems() yields the keys; anything else is returned as it is.
format_environment(environment, iteritems) ==
    IF environment.t = "dict"
    THEN Ok(PList([i \in 1..Len(iteritems) |->
                     iteritems[i] \o <<"=">> \o environment.v[iteritems[i]]]))
    ELSE Ok(environment)

\* The orders in which iteritems() can yield the keys of a dict.
Orders(keys) ==
    { o \in [1..Cardinality(keys) -> keys] :
        \A i, j \in 1..Cardinality(keys) : i # j => o[i] # o[j] }

\* v.split()[0]: the first whitespace-delimited token, if there is one.
RECURSIVE lstrip(_)
lstrip(v) == IF v # <<>> /\ Head(v) = " " THEN lstrip(Tail(v)) ELSE v

first_token(v) ==
    LET w == lstrip(v)
        sp == Positions(w, " ")
    IN  IF sp = {} THEN w ELSE SubSeq(w, 1, Minimum(sp) - 1)

\* The translator of 'volumes'.
volumes_lambda(_list) ==
    IF \E i \in 1..Len(_list.v) : lstrip(_list.v[i]) = <<>>
    THEN Err("IndexError")
    ELSE Ok(PDict([k \in { first_token(_list.v[i]) : i \in 1..Len(_list.v) }
                     |-> PDict(<<>>)]))

TRANSLATORS ==
    [hostname    |-> <<"Hostname", "None">>,
     domainname  |-> <<"Domainname", "None">>,
     user        |-> <<"User", "None">>,
     ports       |-> <<"ExposedPorts", "ports_to_exposed_ports">>,
     environment |-> <<"Env", "format_environment">>,
     command     |-> <<"Cmd", "None">>,
     working_dir |-> <<"WorkingDir", "None">>,
     entrypoint  |-> <<"Entrypoint", "None">>,
     volumes     |-> <<"Volumes", "lambda">>,
     labels      |-> <<"Labels", "None">>,
     onbuild     |-> <<"OnBuild", "None">>]

\* A variant of the defaults with Entrypoint=''.
default_config_entrypoint_str ==
    [Hostname     |-> PStr(<<>>),
     Domainname   |-> PStr(<<>>),
     User         |-> PStr(<<>>),
     ExposedPorts |-> PDict(<<>>),
     Env          |-> PList(<<>>),
     Cmd          |-> PStr(<<>>),
     WorkingDir   |-> PStr(<<>>),
     Entrypoint   |-> PStr(<<>>),
     Volumes      |-> PDict(<<>>),
     Labels       |-> PDict(<<>>),
     OnBuild      |-> PList(<<>>)]

\* config = dict(Hostname='', ...)
default_config ==
    [Hostname     |-> PStr(<<>>),
     Domainname   |-> PStr(<<>>),
     User         |-> PStr(<<>>),
     ExposedPorts |-> PDict(<<>>),
     Env          |-> PList(<<>>),
     Cmd          |-> PStr(<<>>),
     WorkingDir   |-> PStr(<<>>),
     Entrypoint   |-> PNone,
     Volumes      |-> PDict(<<>>),
     Labels       |-> PDict(<<>>),
     OnBuild      |-> PList(<<>>)]

\* translator(metadata[metadata_key]) if translator else metadata[metadata_key]
translate(translator, value, iteritems) ==
    IF translator = "ports_to_exposed_ports" THEN ports_to_exposed_ports(value)
    ELSE IF translator = "format_environment" THEN format_environment(value, iteritems)
    ELSE IF translator = "lambda" THEN volumes_lambda(value)
    ELSE Ok(value)

\* The for loop over TRANSLATORS.iteritems(), over the keys still to visit.
RECURSIVE translate_loop(_, _, _, _)
translate_loop(keys, md, cfg, iteritems) ==
    IF keys = {} THEN [status |-> "ok", config |-> cfg]
    ELSE LET metadata_key == CHOOSE k \in keys : TRUE
             key == TRANSLATORS[metadata_key][1]
             translator == TRANSLATORS[metadata_key][2]
         IN  IF metadata_key \in DOMAIN md
             THEN LET r == translate(translator, md[metadata_key], iteritems)
                  IN  IF r.status # "ok"
                      THEN [status |-> r.status, config |-> default_config]
                      ELSE translate_loop(keys \ {metadata_key}, md,
                                          (key :> r.v) @@ cfg, iteritems)
             ELSE translate_loop(keys \ {metadata_key}, md, cfg, iteritems)

image_config(md, iteritems) ==
    translate_loop(DOMAIN TRANSLATORS, md, default_config, iteritems)

Absent == [t |-> "absent", v |-> <<>>]

\* Values a metadata key is given in the model.
MetadataValues ==
    [hostname    |-> { PStr(<<"h">>) },
     ports       |-> { PList(<<>>),
                       PList(<< <<"8">> >>),
                       PList(<< <<"1", ":", "7", "-", "9">> >>),
                       PList(<< <<"8">>, <<"9", ":", "8">> >>),
                       PList(<< <<"-", "7">> >>) },
     environment |-> { PDict((<<"A">> :> <<"1">>) @@ (<<"B">> :> <<"2">>)),
                       PList(<< <<"A", "=", "1">> >>) },
     volumes     |-> { PList(<< <<"/", "d", " ", "r", "o">>, <<" ", "/", "e">> >>),
                       PList(<< <<" ">> >>) },
     entrypoint  |-> { PList(<< <<"s", "h">> >>) },
     links       |-> { PList(<< <<"d", "b">> >>) }]

Choices(k) == MetadataValues[k] \cup { Absent }

InitConfig ==
    /\ \E h \in Choices("hostname"), p \in Choices("ports"),
          e \in Choices("environment"), v \in Choices("volumes"),
          c \in Choices("entrypoint"), l \in Choices("links") :
          LET choice == [hostname |-> h, ports |-> p, environment |-> e,
                         volumes |-> v, entrypoint |-> c, links |-> l]
          IN  metadata = [k \in { j \in DOMAIN choice : choice[j] # Absent }
                            |-> choice[k]]
    /\ cfg_pc = "call"
    /\ config = [status |-> "pending", config |-> default_config]

IdleConfig ==
    /\ metadata = <<>>
    /\ cfg_pc = "off"
    /\ config = [status |-> "pending", config |-> default_config]

\* The environment dict's keys, in an order iteritems() may yield them.
EnvironmentOrders(md) ==
    IF "environment" \in DOMAIN md /\ md["environment"].t = "dict"
    THEN Orders(DOMAIN md["environment"].v)
    ELSE { <<>> }

metadata_to_image_config ==
    /\ cfg_pc = "call"
    /\ \E iteritems \in EnvironmentOrders(metadata) :
         config' = image_config(metadata, iteritems)
    /\ cfg_pc' = "done"
    /\ UNCHANGED <<op, fpvars, tmpvars, scvars, metadata>>

\* ------------------------------------------------------------------------
\* create_role_from_templates
\* ------------------------------------------------------------------------

\* Paths are relative to role_path; a file name is a sequence of parts.

\* The template files under templates/role, as os.walk lists them:
\* (rel_path, file name).
TemplateFiles ==
    << [rel_path |-> ".",     template |-> <<"README", ".md", ".j2">>],
       [rel_path |-> "meta",  template |-> <<"main", ".yml", ".j2">>],
       [rel_path |-> "tasks", template |-> <<"main", ".yml", ".j2">>] >>

\* datetime.now().strftime('%Y%m%d%H%M%s')
timestamp == "%Y%m%d%H%M%s"

\* datetime.today().strftime('%y%m%d%H%M%S')
new_timestamp == "%y%m%d%H%M%S"

\* template.replace('.j2', '')
target_name(template) == SelectSeq(template, LAMBDA part : part # ".j2")

\* os.path.join(target_dir, target_name)
target_path(rel_path, template) == <<rel_path, "/">> \o target_name(template)

\* u'%s_%s' % (target_path, timestamp)
backup_path(path_) == path_ \o <<"_", timestamp>>

\* os.path.join(role_path, 'tasks', 'main.yml')
tasks_file == <<"tasks", "/", "main", ".yml">>

\* os.path.join(role_path, 'tasks', "main_{}.yml".format(...))
new_tasks_file == <<"tasks", "/", "main", "_", new_timestamp, ".yml">>

\* os.rename(src, dst): dst is replaced if it exists.
rename(files, src, dst) ==
    [k \in (DOMAIN files \ {src}) \cup {dst} |->
        IF k = dst THEN files[src] ELSE files[k]]

\* open(path, 'wb').write(content)
write(files, path_, content) ==
    [k \in DOMAIN files \cup {path_} |-> IF k = path_ THEN content ELSE files[k]]

UserFile(path_) == [by |-> "user", of |-> path_]

\* What jinja_render_to_temp writes for a template.
Rendered(t) == [by |-> "jinja", of |-> <<t.rel_path, "/">> \o t.template]

\* A variant of the loop body that renders over an existing target.
render_without_backup(files, t) ==
    write(files, target_path(t.rel_path, t.template), Rendered(t))

\* The body of the loop over the templates: back up an existing target,
\* then render the template over the target path.
render(files, t) ==
    LET target == target_path(t.rel_path, t.template)
        backed == IF target \in DOMAIN files
                  THEN rename(files, target, backup_path(target))
                  ELSE files
    IN  write(backed, target, Rendered(t))

\* Files that can already be under role_path.
CandidateFiles ==
    { target_path(TemplateFiles[i].rel_path, TemplateFiles[i].template) :
        i \in 1..Len(TemplateFiles) } \cup { <<"tasks", "/", "other", ".yml">> }

SubSequences(s) ==
    { SelectSeq([i \in 1..Len(s) |-> [x |-> s[i], keep |-> i \in K]],
                LAMBDA e : e.keep) : K \in SUBSET (1..Len(s)) }

Unmark(s) == [i \in 1..Len(s) |-> s[i].x]

IdleScaffold ==
    /\ templates = <<>>
    /\ todo = <<>>
    /\ sc_pc = "off"
    /\ preexisting = <<>>
    /\ role_fs = <<>>

InitScaffold ==
    /\ \E ts \in SubSequences(TemplateFiles) : templates = Unmark(ts)
    /\ \E present \in SUBSET CandidateFiles :
          preexisting = [f \in present |-> UserFile(f)]
    /\ role_fs = preexisting
    /\ todo = <<>>
    /\ sc_pc = "call"

\* create_role_from_templates up to the loop: os.walk(templates_path).
create_role_from_templates ==
    /\ sc_pc = "call"
    /\ todo' = templates
    /\ sc_pc' = "loop"
    /\ UNCHANGED <<op, fpvars, tmpvars, cfgvars, templates, preexisting, role_fs>>

\* One template of the loop.
render_template ==
    /\ sc_pc = "loop"
    /\ todo # <<>>
    /\ role_fs' = render(role_fs, Head(todo))
    /\ todo' = Tail(todo)
    /\ UNCHANGED <<op, fpvars, tmpvars, cfgvars, templates, preexisting, sc_pc>>

\* After the loop: an existing tasks/main.yml is renamed to main_<time>.yml.
rename_tasks_file ==
    /\ sc_pc = "loop"
    /\ todo = <<>>
    /\ role_fs' = IF tasks_file \in DOMAIN role_fs
                  THEN rename(role_fs, tasks_file, new_tasks_file)
                  ELSE role_fs
    /\ sc_pc' = "done"
    /\ UNCHANGED <<op, fpvars, tmpvars, cfgvars, templates, preexisting, todo>>

Init ==
    \/ op = "fingerprint" /\ InitFingerprint /\ IdleTempDir /\ IdleConfig /\ IdleScaffold
    \/ op = "tempdir" /\ IdleFingerprint /\ InitTempDir /\ IdleConfig /\ IdleScaffold
    \/ op = "config" /\ IdleFingerprint /\ IdleTempDir /\ InitConfig /\ IdleScaffold
    \/ op = "scaffold" /\ IdleFingerprint /\ IdleTempDir /\ IdleConfig /\ InitScaffold

Next ==
    \/ get_role_fingerprint
    \/ hash_role
    \/ hash_role_dependency
    \/ hash_role_return
    \/ ReorderDependencies
    \/ MoveRole
    \/ Relist
    \/ ChangeContent
    \/ __enter__
    \/ body_write
    \/ body_end
    \/ __exit__
    \/ metadata_to_image_config
    \/ create_role_from_templates
    \/ render_template
    \/ rename_tasks_file

Spec == Init /\ [][Next]_vars

\* A call of get_role_fingerprint is sequential code: it keeps running.
FairSpec == Spec /\ WF_vars(hash_role \/ hash_role_dependency \/ hash_role_return)

\* ------------------------------------------------------------------------
\* Properties of get_role_fingerprint
\* ------------------------------------------------------------------------

BothReturned == result[1].status = "digest" /\ result[2].status = "digest"

\* The named roles meta/main.yml lists, read off the bytes of the file.
ListedRoles(t) ==
    LET m == meta_main_file(t)
    IN  IF m.exists /\ m.data # <<>> /\ Head(m.data) = "D"
        THEN SelectSeq(Tail(m.data), LAMBDA e : e # "-")
        ELSE <<>>

\* The role's own tree followed by the streams of the roles it lists, in
\* the order listed, to the given depth.
RECURSIVE StreamInListedOrder(_, _)
RECURSIVE StreamsInListedOrder(_, _)
StreamInListedOrder(r, depth) ==
    IF depth = 0 \/ r \notin Roles THEN <<>>
    ELSE hash_dir(path[r], tree[r]) \o StreamsInListedOrder(ListedRoles(tree[r]), depth - 1)

StreamsInListedOrder(rs, depth) ==
    IF rs = <<>> THEN <<>>
    ELSE StreamInListedOrder(Head(rs), depth) \o StreamsInListedOrder(Tail(rs), depth)

\* C1 as claimed: listing the same dependencies in another order leaves the
\* fingerprint unchanged.
C1_OrderOfDependenciesIgnored ==
    (edit.kind = "reorder" /\ Finished /\ run = 2 /\ BothReturned)
        => result[1].digest = result[2].digest

\* C1 amended: a returned fingerprint is the digest of the role's own tree
\* followed by the streams of the named dependencies, recursively, in the
\* order in which meta/main.yml lists them.
C1_DependenciesHashedInListedOrder ==
    (pc = "done")
        => result[run].digest = hexdigest(StreamInListedOrder(role_name, RecursionLimit))

\* Two dependencies were listed in another order and the fingerprint changed.
C1_Witness ==
    /\ edit.kind = "reorder"
    /\ edit.role = role_name
    /\ pc = "done"
    /\ run = 2
    /\ Len(ListedRoles(tree[role_name])) = 2
    /\ BothReturned
    /\ result[1].digest # result[2].digest

\* C2: the same tree resolved to another directory has the same fingerprint.
C2_SameTreeElsewhereSameFingerprint ==
    (edit.kind = "move" /\ Finished /\ run = 2 /\ BothReturned)
        => result[1].digest = result[2].digest

\* C3: the order in which the walk lists sibling files and directories does
\* not change the fingerprint.
C3_EnumerationOrderIgnored ==
    (edit.kind = "relist" /\ Finished /\ run = 2 /\ BothReturned)
        => result[1].digest = result[2].digest

\* C4: when the files of the role or of one of its transitive dependencies
\* differ (content rewritten, file added or removed), the fingerprints differ.
C4_ContentChangeChangesFingerprint ==
    (edit.kind = "content" /\ Finished /\ run = 2 /\ BothReturned
       /\ visits[edit.role] > 0)
        => result[1].digest # result[2].digest

\* What C5 says the digest receives for the files of a directory: path,
\* separator, all bytes of the file, separator.
RECURSIVE PathSepBytesSep(_, _)
PathSepBytesSep(root, files) ==
    IF files = <<>> THEN <<>>
    ELSE join(root, Head(files).name) \o SEP \o Head(files).data \o SEP
         \o PathSepBytesSep(root, Tail(files))

RECURSIVE PathSepBytesSepDirs(_, _)
PathSepBytesSepDirs(root, dirs) ==
    IF dirs = <<>> THEN <<>>
    ELSE PathSepBytesSep(join(root, Head(dirs).name), Head(dirs).files)
         \o PathSepBytesSepDirs(root, Tail(dirs))

\* C5: for every file the walk visits, of any size, the digest receives the
\* path, one separator, the file's bytes in order and one separator.
C5_PathSepBytesSep ==
    [][hash_role =>
         hash_obj' = hash_obj \o PathSepBytesSep(path[Top.role], tree[Top.role].files)
                              \o PathSepBytesSepDirs(path[Top.role], tree[Top.role].dirs)]_vars

\* The ways a role has no dependencies: no meta/main.yml, an empty document,
\* no 'dependencies' key, an empty list.
NoDependencies(t) ==
    LET m == meta_main_file(t)
    IN  \/ ~m.exists
        \/ m.data = <<>>
        \/ Head(m.data) # "D"
        \/ m.data = <<"D">>

\* C6: for a role without dependencies, however that is expressed, the call
\* returns the digest of the role's own tree and raises nothing.
C6_NoDependenciesOwnTreeOnly ==
    (op = "fingerprint" /\ Finished /\ NoDependencies(tree[role_name]))
        => result[run] = Returned(hexdigest(hash_dir(path[role_name], tree[role_name])))

\* The roles a role lists, as a set.
Listed(r) ==
    IF r \in Roles
    THEN { ListedRoles(tree[r])[i] : i \in 1..Len(ListedRoles(tree[r])) }
    ELSE {}

ListedBy(S) == UNION { Listed(r) : r \in S }

\* Everything reachable from the roles of S along at least one dependency.
Descendants(S) ==
    LET d1 == ListedBy(S)
        d2 == d1 \cup ListedBy(d1)
        d3 == d2 \cup ListedBy(d2)
    IN  d3 \cup ListedBy(d3)

Reachable == {role_name} \cup Descendants({role_name})

\* Every reachable role resolves and its meta/main.yml is a mapping.
AllResolvableAndWellFormed ==
    \A r \in Reachable :
        /\ r \in Roles
        /\ get_dependencies_for_role(tree[r]).status = "ok"

CycleReachable == \E r \in Reachable : r \in Descendants({r})

\* The number of dependency paths from one role to another, to a depth.
RECURSIVE DependencyPaths(_, _, _)
RECURSIVE DependencyPathsVia(_, _, _)
DependencyPaths(from, to, depth) ==
    IF depth = 0 \/ from \notin Roles THEN 0
    ELSE (IF from = to THEN 1 ELSE 0)
         + DependencyPathsVia(ListedRoles(tree[from]), to, depth - 1)

DependencyPathsVia(rs, to, depth) ==
    IF rs = <<>> THEN 0
    ELSE DependencyPaths(Head(rs), to, depth) + DependencyPathsVia(Tail(rs), to, depth)

\* C10: on a finite acyclic dependency graph of resolvable, well-formed roles
\* the call terminates with a digest, having visited each role once per
\* dependency path that reaches it; when a cycle is reachable from the
\* starting role no digest is ever returned.
C10_TerminatesUnlessCyclic ==
    /\ [](pc = "done" =>
            /\ ~CycleReachable
            /\ \A r \in Roles :
                 visits[r] = DependencyPaths(role_name, r, Cardinality(Roles)))
    /\ [](CycleReachable => pc # "done")
    /\ ((pc = "hashing" /\ AllResolvableAndWellFormed /\ ~CycleReachable)
          ~> (pc = "done"))

\* A role reached along two dependency paths was hashed twice and the call
\* returned.
C10_Witness ==
    /\ pc = "done"
    /\ \E r \in Roles : visits[r] = 2

\* ------------------------------------------------------------------------
\* Properties of MakeTempDir
\* ------------------------------------------------------------------------

\* C7: the directory exists during the body; when the block is left rmtree
\* has been called on it, whether the body returned or raised, and the
\* directory is gone unless rmtree itself failed; a failure of rmtree is
\* logged and does not reach the caller; an exception of the body reaches
\* the caller after the cleanup.
C7_TempDirScoped ==
    /\ [](tmp_pc = "body" => tmp_disk.exists)
    /\ []((tmp_pc = "left" /\ temp_dir # None) =>
            /\ Len(tmp_log) >= 2
            /\ tmp_log[2] = "debug"
            /\ (tmp_disk.exists => tmp_log[Len(tmp_log)] = "exception")
            /\ tmp_exc \in {None, "body"})
    /\ [][tmp_pc = "exit" => (tmp_pc' = "left" /\ tmp_exc' = tmp_exc)]_vars

\* The body raised, rmtree failed, and the block was left.
C7_Witness ==
    /\ tmp_pc = "left"
    /\ tmp_exc = "body"
    /\ tmp_disk.exists
    /\ tmp_log[Len(tmp_log)] = "exception"

\* ------------------------------------------------------------------------
\* Properties of metadata_to_image_config
\* ------------------------------------------------------------------------

ElevenKeys ==
    {"Hostname", "Domainname", "User", "ExposedPorts", "Env", "Cmd",
     "WorkingDir", "Entrypoint", "Volumes", "Labels", "OnBuild"}

SourceKeys ==
    {"hostname", "domainname", "user", "ports", "environment", "command",
     "working_dir", "entrypoint", "volumes", "labels", "onbuild"}

TargetOf(k) ==
    CASE k = "hostname" -> "Hostname"
      [] k = "domainname" -> "Domainname"
      [] k = "user" -> "User"
      [] k = "ports" -> "ExposedPorts"
      [] k = "environment" -> "Env"
      [] k = "command" -> "Cmd"
      [] k = "working_dir" -> "WorkingDir"
      [] k = "entrypoint" -> "Entrypoint"
      [] k = "volumes" -> "Volumes"
      [] k = "labels" -> "Labels"
      [] k = "onbuild" -> "OnBuild"

IsEmptyValue(x) == x.t \in {"str", "list", "dict"} /\ x.v = <<>>

ReturnedConfig == cfg_pc = "done" /\ config.status = "ok"

KnownOnly(md) == [k \in DOMAIN md \cap SourceKeys |-> md[k]]

ElevenKeysUnknownIgnored ==
    /\ DOMAIN config.config = ElevenKeys
    /\ \E iteritems \in EnvironmentOrders(metadata) :
          config = image_config(KnownOnly(metadata), iteritems)

\* C8 as claimed: the record returned has exactly the eleven keys, unknown
\* metadata keys have no effect, and every target whose source key is
\* absent holds an empty string, an empty list or an empty mapping.
C8_AbsentKeysKeepEmptyDefaults ==
    ReturnedConfig =>
        /\ ElevenKeysUnknownIgnored
        /\ \A k \in SourceKeys \ DOMAIN metadata :
              IsEmptyValue(config.config[TargetOf(k)])

\* C8 amended: as above, but the default of Entrypoint is None.
C8_AbsentKeysKeepDefaults ==
    ReturnedConfig =>
        /\ ElevenKeysUnknownIgnored
        /\ \A k \in SourceKeys \ DOMAIN metadata :
              IF k = "entrypoint"
              THEN config.config[TargetOf(k)] = PNone
              ELSE IsEmptyValue(config.config[TargetOf(k)])

\* A record was returned for metadata with an unknown key, with translated
\* ports and without an entrypoint.
C8_Witness ==
    /\ ReturnedConfig
    /\ "links" \in DOMAIN metadata
    /\ "ports" \in DOMAIN metadata
    /\ "entrypoint" \notin DOMAIN metadata
    /\ config.config["ExposedPorts"].v # <<>>

\* ------------------------------------------------------------------------
\* Properties of create_role_from_templates
\* ------------------------------------------------------------------------

\* The names a pre-existing file can be renamed to.
TimestampedNames(f) ==
    {backup_path(f)} \cup (IF f = tasks_file THEN {new_tasks_file} ELSE {})

KeptUnderTimestampedName(f) ==
    \E q \in TimestampedNames(f) :
        q \in DOMAIN role_fs /\ role_fs[q] = preexisting[f]

TasksTemplate == [rel_path |-> "tasks", template |-> <<"main", ".yml", ".j2">>]

HasTasksTemplate == \E i \in 1..Len(templates) : templates[i] = TasksTemplate

\* C9 as claimed: an existing tasks/main.yml is kept under a timestamped
\* name and after the call the newly generated file is at tasks/main.yml.
C9_NewTasksFileAtMainYml ==
    (sc_pc = "done" /\ tasks_file \in DOMAIN preexisting) =>
        /\ KeptUnderTimestampedName(tasks_file)
        /\ tasks_file \in DOMAIN role_fs
        /\ role_fs[tasks_file].by = "jinja"

\* C9 amended: the content of every pre-existing file is always still
\* present, under its own name or a timestamped one; after the call an
\* existing tasks/main.yml is kept under a timestamped name, nothing is at
\* tasks/main.yml, and a tasks/main.yml rendered from a template is found at
\* main_<time>.yml.
C9_BackedUpBeforeOverwrite ==
    /\ \A f \in DOMAIN preexisting :
          \/ f \in DOMAIN role_fs /\ role_fs[f] = preexisting[f]
          \/ KeptUnderTimestampedName(f)
    /\ sc_pc = "done" =>
          /\ tasks_file \notin DOMAIN role_fs
          /\ tasks_file \in DOMAIN preexisting => KeptUnderTimestampedName(tasks_file)
          /\ HasTasksTemplate =>
                /\ new_tasks_file \in DOMAIN role_fs
                /\ role_fs[new_tasks_file] = Rendered(TasksTemplate)
          /\ \A i \in 1..Len(templates) :
                LET target == target_path(templates[i].rel_path, templates[i].template)
                IN  (target \in DOMAIN preexisting /\ target # tasks_file) =>
                        /\ role_fs[target] = Rendered(templates[i])
                        /\ role_fs[backup_path(target)] = preexisting[target]

\* tasks/main.yml existed, a template rendered a new one, and the call is over
\* with the old content under the timestamped backup name.
C9_Witness ==
    /\ sc_pc = "done"
    /\ tasks_file \in DOMAIN preexisting
    /\ HasTasksTemplate
    /\ backup_path(tasks_file) \in DOMAIN role_fs
    /\ role_fs[backup_path(tasks_file)] = preexisting[tasks_file]

====
